---- MODULE Spec2Model ----
(***************************************************************************)
(* Model of usecase/spawn_actor_processes.go: the dispatcher Spawn and the *)
(* per-topic worker and reputer loops it launches as goroutines.           *)
(*                                                                         *)
(* The chain client (topic, height, nonce, registration, commit) is an     *)
(* external collaborator: each call returns a nondeterministic result.     *)
(* The AnticipatedWindow methods are not part of the source file; they are *)
(* modelled from the design text: a window is an interval of block heights *)
(* anchored to the height (worker) or to the nonce height (reputer) it is  *)
(* computed from, and the waits are timed sleeps that end at any height.   *)
(*                                                                         *)
(* Each loop carries a history (hist) that the properties read and no      *)
(* action does; the dispatcher specification Spec runs without it          *)
(* (recording = FALSE), the single-loop specifications with it.            *)
(***************************************************************************)
EXTENDS Integers, Sequences, FiniteSets, TLC

\* ---------------------------------------------------------------- bounds
\* Highest chain height the chain reaches in a run.
MaxHeight == 3
\* Highest BlockHeight a fetched nonce carries (0 is the absent sentinel).
MaxNonce == 1
\* topic.EpochLength of every topic (blocks per cycle).
EpochLength == 2
\* Longest configuration list of one role.
MaxEntries == 2
\* Consecutive failed commits that are counted (the count saturates here).
MaxFails == 3
\* Most loops a configuration starts.
MaxLoops == 2

TopicIds == {1, 2}

\* ------------------------------------------------------------ data model
\* The zero value AnticipatedWindow{} (lines 66, 130).
ZeroWindow == [open |-> 0, close |-> 0]

\* A nil *emissions.Nonce (line 126).
NilNonce == [BlockHeight |-> -1]

Nonce(h) == [BlockHeight |-> h]

\* Results GetLatestOpenWorkerNonceByTopicId can return: a nonce (BlockHeight 0
\* when none is open) together with an error or none. The call is taken to
\* return a nonce value always, never a nil pointer.
NonceResults == [BlockHeight : 0..MaxNonce, err : BOOLEAN]

\* window.CalcWorkerSoonestAnticipatedWindow(suite, topic, currentBlock): the
\* windows the computation can return, anchored to currentBlock; the lead and
\* the span depend on the position in the epoch and on block-time statistics.
CalcWorkerSoonestAnticipatedWindow(epochLength, currentBlock) ==
  { [open |-> currentBlock + lead, close |-> currentBlock + lead + span] :
      lead \in 0..(epochLength - 1), span \in 0..(epochLength - 1) }

\* window.CalcReputerSoonestAnticipatedWindow(topic, openNonceBlockHeight): the
\* submission windows, anchored to the nonce's block height.
CalcReputerSoonestAnticipatedWindow(epochLength, nonceHeight) ==
  { [open |-> nonceHeight + lead, close |-> nonceHeight + lead + span] :
      lead \in 1..epochLength, span \in 0..(epochLength - 1) }

\* window.BlockIsWithinWindow(block)
BlockIsWithinWindow(window, block) ==
  window.open <= block /\ block <= window.close

\* window.BlockIsWithinReputerWindow(block)
BlockIsWithinReputerWindow(window, block) ==
  window.open <= block /\ block <= window.close

\* ----------------------------------------------------------------- state
VARIABLES
  workerCfg,    \* suite.Node.Worker: the TopicId of each entry, in order
  reputerCfg,   \* suite.Node.Reputer
  spawnPc,      \* where Spawn is: "workers", "reputers", "wait", "returned"
  spawnIdx,     \* index of the range loop Spawn is in
  alreadyStartedWorkerForTopic,
  alreadyStartedReputerForTopic,
  wg,           \* the WaitGroup counter
  worker,       \* the goroutine of each worker entry (pc "idle": not launched)
  reputer,      \* the goroutine of each reputer entry
  chainHeight,  \* the chain's current block height
  panicked,     \* a goroutine panicked: the process is gone
  hist,         \* history of each loop: calls made, waits, commits
  recording     \* whether the run keeps the history (it never affects a loop)

vars == <<workerCfg, reputerCfg, spawnPc, spawnIdx, alreadyStartedWorkerForTopic,
          alreadyStartedReputerForTopic, wg, worker, reputer, chainHeight,
          panicked, hist, recording>>

spawnVars == <<spawnPc, spawnIdx, alreadyStartedWorkerForTopic,
               alreadyStartedReputerForTopic>>

cfgVars == <<workerCfg, reputerCfg, recording>>

Workers == 1..Len(workerCfg)
Reputers == 1..Len(reputerCfg)

W(i) == <<"worker", i>>
R(i) == <<"reputer", i>>

\* Local variables of runWorkerProcess before the loop is entered (lines 65-66).
WorkerStart ==
  [pc |-> "idle", currentBlock |-> 0, mustRecalcWindow |-> TRUE,
   window |-> ZeroWindow, latestOpenWorkerNonce |-> NilNonce]

\* Local variables of runReputerProcess before the loop is entered (lines 126-130).
ReputerStart ==
  [pc |-> "idle", currentBlock |-> 0, latestOpenReputerNonce |-> NilNonce,
   mustRecalcOpenNonceWindow |-> TRUE, mustGetOpenNonce |-> TRUE,
   mustRecalcReputerWindow |-> TRUE, window |-> ZeroWindow]

\* No nonce fetch has been made.
NoFetch == [BlockHeight |-> -1, err |-> FALSE]

\* History of one loop.
\*   did: the kinds of call the loop has ever made;
\*   iter: the calls of the current iteration (at pc "height": of the last
\*     one), with "success" for a commit that succeeded;
\*   nReg: registration calls made (saturates at 2);
\*   registered: what the registration call returned ("none" before it);
\*   fetched: what the last nonce fetch returned (worker: of this iteration);
\*   nonceFresh: the kept nonce was fetched after the last successful commit;
\*   sinceSucc: what happened since the last successful commit ("again": a
\*     further commit succeeded before a window-start wait and a new window);
\*   succInWindow: successful commits since the window was last computed;
\*   nSucc: successful commits (saturates at 2);
\*   fails: consecutive failed commits (saturates at MaxFails);
\*   windowNonce: the nonce the reputer's submission window was last computed
\*     from, whether a nonce was still needed then, and whether the nonce
\*     was fresh then;
\*   topic: what the topic fetch returned ("none" before it, "ok", "err");
\*   heightErr: a height fetch returned an error;
\*   openWindow: the reputer's open-nonce window as last computed;
\*   retry: the reputer's last nonce fetch returned an absent nonce or an
\*     error, and no commit has succeeded since;
\*   nonceCommitted: a reputer commit has succeeded with the kept nonce (no
\*     fetch has been made since);
\*   usedTwice: two reputer commits have succeeded with one fetched nonce.
HistStart ==
  [did |-> {}, iter |-> {}, nReg |-> 0, registered |-> "none",
   topic |-> "none", heightErr |-> FALSE,
   openWindow |-> ZeroWindow, retry |-> FALSE,
   nonceCommitted |-> FALSE, usedTwice |-> FALSE,
   fetched |-> NoFetch, nonceFresh |-> FALSE,
   sinceSucc |-> "none", succInWindow |-> 0, nSucc |-> 0, fails |-> 0,
   windowNonce |-> [BlockHeight |-> -1, needed |-> FALSE, fresh |-> FALSE]]

Min(a, b) == IF a < b THEN a ELSE b

Configs == UNION { [1..n -> TopicIds] : n \in 0..MaxEntries }

InitWith(wc, rc, rec) ==
  /\ workerCfg = wc
  /\ reputerCfg = rc
  /\ spawnPc = "workers"
  /\ spawnIdx = 1
  /\ alreadyStartedWorkerForTopic = {}
  /\ alreadyStartedReputerForTopic = {}
  /\ wg = 0
  /\ worker = [i \in 1..Len(wc) |-> WorkerStart]
  /\ reputer = [i \in 1..Len(rc) |-> ReputerStart]
  /\ chainHeight = 1
  /\ panicked = FALSE
  /\ recording = rec
  /\ hist = [id \in {<<"worker", i>> : i \in 1..Len(wc)}
                    \cup {<<"reputer", i>> : i \in 1..Len(rc)} |-> HistStart]

\* ------------------------------------------------------------ the chain
\* The chain produces a block.
Tick ==
  /\ chainHeight < MaxHeight
  /\ chainHeight' = chainHeight + 1
  /\ UNCHANGED <<cfgVars, spawnVars, wg, worker, reputer, panicked, hist>>

\* ---------------------------------------------------------------- Spawn
\* Mutant: the dedup map is never consulted.
AlreadyStarted_Never(started, topicId) == FALSE

\* Mutant: the test of the dedup map is inverted.
AlreadyStarted_Inverted(started, topicId) == topicId \notin started

\* The test of the dedup map (lines 17, 33).
AlreadyStarted(started, topicId) == topicId \in started

\* Mutant: the started loop is not recorded in the dedup map.
MarkStarted_Forgotten(started, topicId) == started

\* The dedup map after the entry's TopicId is recorded (lines 21, 37).
MarkStarted(started, topicId) == started \cup {topicId}

\* Lines 16-20: a worker entry whose TopicId already has a loop is skipped.
SpawnSkipWorker ==
  /\ ~panicked /\ spawnPc = "workers" /\ spawnIdx <= Len(workerCfg)
  /\ AlreadyStarted(alreadyStartedWorkerForTopic, workerCfg[spawnIdx])
  /\ spawnIdx' = spawnIdx + 1
  /\ UNCHANGED <<cfgVars, spawnPc, alreadyStartedWorkerForTopic,
                 alreadyStartedReputerForTopic, wg, worker, reputer,
                 chainHeight, panicked, hist>>

\* Lines 16-27: the entry is recorded, the WaitGroup raised, the goroutine started.
SpawnStartWorker ==
  /\ ~panicked /\ spawnPc = "workers" /\ spawnIdx <= Len(workerCfg)
  /\ ~AlreadyStarted(alreadyStartedWorkerForTopic, workerCfg[spawnIdx])
  /\ alreadyStartedWorkerForTopic' =
       MarkStarted(alreadyStartedWorkerForTopic, workerCfg[spawnIdx])
  /\ wg' = wg + 1
  /\ worker' = [worker EXCEPT ![spawnIdx].pc = "getTopic"]
  /\ spawnIdx' = spawnIdx + 1
  /\ UNCHANGED <<cfgVars, spawnPc, alreadyStartedReputerForTopic, reputer,
                 chainHeight, panicked, hist>>

\* Line 28 to line 31: the worker range loop is over.
SpawnWorkersDone ==
  /\ ~panicked /\ spawnPc = "workers" /\ spawnIdx > Len(workerCfg)
  /\ spawnPc' = "reputers"
  /\ spawnIdx' = 1
  /\ UNCHANGED <<cfgVars, alreadyStartedWorkerForTopic,
                 alreadyStartedReputerForTopic, wg, worker, reputer,
                 chainHeight, panicked, hist>>

\* Lines 32-36.
SpawnSkipReputer ==
  /\ ~panicked /\ spawnPc = "reputers" /\ spawnIdx <= Len(reputerCfg)
  /\ AlreadyStarted(alreadyStartedReputerForTopic, reputerCfg[spawnIdx])
  /\ spawnIdx' = spawnIdx + 1
  /\ UNCHANGED <<cfgVars, spawnPc, alreadyStartedWorkerForTopic,
                 alreadyStartedReputerForTopic, wg, worker, reputer,
                 chainHeight, panicked, hist>>

\* Lines 32-43.
SpawnStartReputer ==
  /\ ~panicked /\ spawnPc = "reputers" /\ spawnIdx <= Len(reputerCfg)
  /\ ~AlreadyStarted(alreadyStartedReputerForTopic, reputerCfg[spawnIdx])
  /\ alreadyStartedReputerForTopic' =
       MarkStarted(alreadyStartedReputerForTopic, reputerCfg[spawnIdx])
  /\ wg' = wg + 1
  /\ reputer' = [reputer EXCEPT ![spawnIdx].pc = "getTopic"]
  /\ spawnIdx' = spawnIdx + 1
  /\ UNCHANGED <<cfgVars, spawnPc, alreadyStartedWorkerForTopic, worker,
                 chainHeight, panicked, hist>>

\* Line 44 to line 47: the reputer range loop is over, Spawn reaches wg.Wait().
SpawnReputersDone ==
  /\ ~panicked /\ spawnPc = "reputers" /\ spawnIdx > Len(reputerCfg)
  /\ spawnPc' = "wait"
  /\ UNCHANGED <<cfgVars, spawnIdx, alreadyStartedWorkerForTopic,
                 alreadyStartedReputerForTopic, wg, worker, reputer,
                 chainHeight, panicked, hist>>

\* Mutant: the wait is over while one goroutine is still running.
WaitGroupDone_Early(counter) == counter <= 1

\* wg.Wait() returns when the counter is zero (line 47).
WaitGroupDone(counter) == counter = 0

\* Lines 47-48: Spawn returns.
SpawnReturn ==
  /\ ~panicked /\ spawnPc = "wait"
  /\ WaitGroupDone(wg)
  /\ spawnPc' = "returned"
  /\ UNCHANGED <<cfgVars, spawnIdx, alreadyStartedWorkerForTopic,
                 alreadyStartedReputerForTopic, wg, worker, reputer,
                 chainHeight, panicked, hist>>

\* ------------------------------------------------------- loop helpers
\* A goroutine returns: the deferred wg.Done() runs (lines 25, 41).
WaitGroupAfterDone(counter) == counter - 1

\* Mutant: the error of the topic fetch is ignored.
TopicFetchFailed_Ignored(err) == FALSE

\* The test of the topic fetch (lines 54, 115): TRUE when the loop must give up.
TopicFetchFailed(err) == err

\* Mutant: the loop goes on after a failed height fetch.
AfterHeightError_Continue(pc) == pc

\* Lines 69-72, 133-136: where a loop at pc is after a failed height fetch;
\* it has returned.
AfterHeightError(pc) == "done"

\* Mutant: the registration result is ignored.
RegistrationFailed_Ignored(registered) == FALSE

\* The test of the registration result (lines 60, 121): TRUE when the loop
\* must give up.
RegistrationFailed(registered) == ~registered

\* Mutant: the height test is inverted.
NonceUnusable_Inverted(blockHeight, err) == blockHeight # 0 \/ err

\* The test of a fetched nonce (lines 85, 148): TRUE when no commit may be
\* attempted with it.
NonceUnusable(blockHeight, err) == blockHeight = 0 \/ err

\* The history of loop id becomes h, in a run that keeps the history.
Log(id, h) ==
  hist' = IF recording THEN [hist EXCEPT ![id] = h] ELSE hist

\* The history after a call of the given kind in the current iteration.
Called(h, kind, step) ==
  [h EXCEPT !.did = @ \cup {kind}, !.iter = @ \cup {step}]

\* --------------------------------------------------- runWorkerProcess
\* Lines 53-57: GetTopicById; an error ends the loop.
WorkerGetTopic(i) ==
  /\ ~panicked /\ worker[i].pc = "getTopic"
  /\ \E err \in BOOLEAN :
       /\ worker' = [worker EXCEPT ![i].pc = IF TopicFetchFailed(err)
                                               THEN "done" ELSE "register"]
       /\ wg' = IF TopicFetchFailed(err) THEN WaitGroupAfterDone(wg) ELSE wg
       /\ Log(W(i), [hist[W(i)] EXCEPT !.did = @ \cup {"topic"},
                                        !.topic = IF err THEN "err" ELSE "ok"])
  /\ UNCHANGED <<cfgVars, spawnVars, reputer, chainHeight, panicked>>

\* Lines 59-66: RegisterWorkerIdempotently; false ends the loop, true enters it.
WorkerRegister(i) ==
  /\ ~panicked /\ worker[i].pc = "register"
  /\ \E registered \in BOOLEAN :
       /\ IF RegistrationFailed(registered)
          THEN /\ worker' = [worker EXCEPT ![i].pc = "done"]
               /\ wg' = WaitGroupAfterDone(wg)
             ELSE /\ worker' = [worker EXCEPT ![i] =
                               [WorkerStart EXCEPT !.pc = "height"]]
               /\ wg' = wg
       /\ Log(W(i), [hist[W(i)] EXCEPT !.did = @ \cup {"register"},
                                        !.nReg = Min(@ + 1, 2),
                                        !.registered = IF registered THEN "true" ELSE "false"])
  /\ UNCHANGED <<cfgVars, spawnVars, reputer, chainHeight, panicked>>

\* Lines 68-72: GetCurrentChainBlockHeight fails; the loop returns.
WorkerHeightError(i) ==
  /\ ~panicked /\ worker[i].pc = "height"
  /\ worker' = [worker EXCEPT ![i].pc = AfterHeightError(@)]
  /\ wg' = WaitGroupAfterDone(wg)
  /\ Log(W(i), [hist[W(i)] EXCEPT !.did = @ \cup {"height"}, !.iter = {},
                                   !.heightErr = TRUE])
  /\ UNCHANGED <<cfgVars, spawnVars, reputer, chainHeight, panicked>>

\* Mutant: the window is recomputed in every iteration.
WorkerWindows_Always(self, currentBlock) ==
  CalcWorkerSoonestAnticipatedWindow(EpochLength, currentBlock)

\* Lines 74-79: the windows the iteration can continue with.
WorkerWindows(self, currentBlock) ==
  IF self.mustRecalcWindow
  THEN CalcWorkerSoonestAnticipatedWindow(EpochLength, currentBlock)
  ELSE {self.window}

\* Mutant: the nonce is fetched whatever the membership test says.
WorkerNextStep_Always(inside) == "nonce"

\* Lines 81 and 104: where the iteration goes by the membership test.
WorkerNextStep(inside) == IF inside THEN "nonce" ELSE "waitStart"

\* Lines 68-81 and 104-106: the height is fetched, the window recomputed when
\* it is stale, and the iteration goes on to the nonce fetch (inside the
\* window) or to the window-start wait (outside).
WorkerIterate(i) ==
  /\ ~panicked /\ worker[i].pc = "height"
  /\ \E window \in WorkerWindows(worker[i], chainHeight) :
       /\ worker' = [worker EXCEPT ![i] =
            [@ EXCEPT !.currentBlock = chainHeight,
                      !.window = window,
                      !.mustRecalcWindow = FALSE,
                      !.pc = WorkerNextStep(
                                BlockIsWithinWindow(window, chainHeight))]]
       /\ Log(W(i),
            [hist[W(i)] EXCEPT
                !.did = @ \cup {"height"}
                          \cup (IF worker[i].mustRecalcWindow
                                THEN {"window"} ELSE {}),
                !.iter = IF worker[i].mustRecalcWindow THEN {"window"} ELSE {},
                !.fetched = NoFetch,
                !.succInWindow = IF worker[i].mustRecalcWindow THEN 0 ELSE @,
                !.sinceSucc = IF worker[i].mustRecalcWindow /\ @ = "waited"
                              THEN "recomputed" ELSE @])
  /\ UNCHANGED <<cfgVars, spawnVars, wg, reputer, chainHeight, panicked>>

\* Lines 82-91 and 103: the nonce is fetched; an absent nonce or an error
\* skips the commit and leads to the short wait. latestOpenWorkerNonce is
\* local to the branch of line 81: it is kept only while a commit with it is
\* ahead.
WorkerFetchNonce(i) ==
  /\ ~panicked /\ worker[i].pc = "nonce"
  /\ \E res \in NonceResults :
       LET attemptCommit == ~NonceUnusable(res.BlockHeight, res.err) IN
       /\ worker' = [worker EXCEPT ![i] =
            [@ EXCEPT !.latestOpenWorkerNonce =
                         IF attemptCommit THEN Nonce(res.BlockHeight) ELSE NilNonce,
                      !.pc = IF attemptCommit THEN "commit" ELSE "backoff"]]
       /\ Log(W(i), [Called(hist[W(i)], "nonce", "nonce") EXCEPT
                        !.fetched = res])
  /\ UNCHANGED <<cfgVars, spawnVars, wg, reputer, chainHeight, panicked>>

\* Mutant: a successful commit does not mark the window stale.
WorkerStaleAfterCommit_Keep(success, mustRecalcWindow) == mustRecalcWindow

\* Mutant: every commit attempt marks the window stale.
WorkerStaleAfterCommit_Always(success, mustRecalcWindow) == TRUE

\* Lines 96-97: what a commit result does to mustRecalcWindow.
WorkerStaleAfterCommit(success, mustRecalcWindow) ==
  IF success THEN TRUE ELSE mustRecalcWindow

\* Mutant: every commit result leads to the short wait.
WorkerWaitAfterCommit_Backoff(success) == "backoff"

\* Lines 96-103: the wait a commit result leads to.
WorkerWaitAfterCommit(success) ==
  IF success THEN "waitStart" ELSE "backoff"

\* Lines 92-103: BuildCommitWorkerPayload; success marks the window stale and
\* leads to the window-start wait, failure to the short wait.
WorkerCommit(i) ==
  /\ ~panicked /\ worker[i].pc = "commit"
  /\ \E success \in BOOLEAN :
       /\ worker' = [worker EXCEPT ![i] =
            [@ EXCEPT !.mustRecalcWindow =
                         WorkerStaleAfterCommit(success, @),
                      !.latestOpenWorkerNonce = NilNonce,
                      !.pc = WorkerWaitAfterCommit(success)]]
       /\ Log(W(i),
            [Called(hist[W(i)], "commit", "commit") EXCEPT
                !.iter = @ \cup (IF success THEN {"success"} ELSE {}),
                !.sinceSucc = IF ~success THEN @
                              ELSE IF @ \in {"none", "recomputed"}
                                   THEN "succ" ELSE "again",
                !.succInWindow = IF success THEN Min(@ + 1, 2) ELSE @,
                !.nSucc = IF success THEN Min(@ + 1, 2) ELSE @,
                !.fails = IF success THEN 0 ELSE Min(@ + 1, MaxFails)])
  /\ UNCHANGED <<cfgVars, spawnVars, wg, reputer, chainHeight, panicked>>

\* Lines 98 and 106: window.WaitForNextAnticipatedWindowToStart returns.
WorkerWaitForNextWindow(i) ==
  /\ ~panicked /\ worker[i].pc = "waitStart"
  /\ worker' = [worker EXCEPT ![i].pc = "height"]
  /\ Log(W(i), [Called(hist[W(i)], "wait", "waitStart") EXCEPT
                   !.sinceSucc = IF @ = "succ" THEN "waited" ELSE @])
  /\ UNCHANGED <<cfgVars, spawnVars, wg, reputer, chainHeight, panicked>>

\* Line 103: suite.WaitWithinAnticipatedWindow returns.
WorkerWaitWithinWindow(i) ==
  /\ ~panicked /\ worker[i].pc = "backoff"
  /\ worker' = [worker EXCEPT ![i].pc = "height"]
  /\ Log(W(i), Called(hist[W(i)], "wait", "backoff"))
  /\ UNCHANGED <<cfgVars, spawnVars, wg, reputer, chainHeight, panicked>>

\* --------------------------------------------------- runReputerProcess
\* Lines 114-118: GetTopicById; an error ends the loop.
ReputerGetTopic(i) ==
  /\ ~panicked /\ reputer[i].pc = "getTopic"
  /\ \E err \in BOOLEAN :
       /\ reputer' = [reputer EXCEPT ![i].pc = IF TopicFetchFailed(err)
                                               THEN "done" ELSE "register"]
       /\ wg' = IF TopicFetchFailed(err) THEN WaitGroupAfterDone(wg) ELSE wg
       /\ Log(R(i), [hist[R(i)] EXCEPT !.did = @ \cup {"topic"},
                                        !.topic = IF err THEN "err" ELSE "ok"])
  /\ UNCHANGED <<cfgVars, spawnVars, worker, chainHeight, panicked>>

\* Lines 120-130: RegisterAndStakeReputerIdempotently; false ends the loop.
ReputerRegister(i) ==
  /\ ~panicked /\ reputer[i].pc = "register"
  /\ \E registeredAndStaked \in BOOLEAN :
       /\ IF RegistrationFailed(registeredAndStaked)
          THEN /\ reputer' = [reputer EXCEPT ![i].pc = "done"]
               /\ wg' = WaitGroupAfterDone(wg)
          ELSE /\ reputer' = [reputer EXCEPT ![i] =
                                [ReputerStart EXCEPT !.pc = "height"]]
               /\ wg' = wg
       /\ Log(R(i), [hist[R(i)] EXCEPT !.did = @ \cup {"register"},
                                        !.nReg = Min(@ + 1, 2),
                                        !.registered =
                                           IF registeredAndStaked
                                           THEN "true" ELSE "false"])
  /\ UNCHANGED <<cfgVars, spawnVars, worker, chainHeight, panicked>>

\* Lines 132-136: GetCurrentChainBlockHeight fails; the loop returns.
ReputerHeightError(i) ==
  /\ ~panicked /\ reputer[i].pc = "height"
  /\ reputer' = [reputer EXCEPT ![i].pc = AfterHeightError(@)]
  /\ wg' = WaitGroupAfterDone(wg)
  /\ Log(R(i), [hist[R(i)] EXCEPT !.did = @ \cup {"height"}, !.iter = {},
                                   !.heightErr = TRUE])
  /\ UNCHANGED <<cfgVars, spawnVars, worker, chainHeight, panicked>>

\* Lines 139-143: the open-nonce windows the iteration can continue with.
ReputerOpenNonceWindows(self, currentBlock) ==
  IF self.mustRecalcOpenNonceWindow
  THEN CalcWorkerSoonestAnticipatedWindow(EpochLength, currentBlock)
  ELSE {self.window}

\* Line 145: whether the iteration fetches the open nonce.
ReputerFetchesNonce(mustGetOpenNonce, window, currentBlock) ==
  mustGetOpenNonce /\ BlockIsWithinWindow(window, currentBlock)

\* Lines 156-160: the submission windows the iteration can continue with.
ReputerSubmissionWindows(self) ==
  IF self.mustRecalcReputerWindow
  THEN CalcReputerSoonestAnticipatedWindow(EpochLength,
                                           self.latestOpenReputerNonce.BlockHeight)
  ELSE {self.window}

\* Lines 162 and 177: where the iteration goes by the membership test.
ReputerNextStep(inside) == IF inside THEN "commit" ELSE "waitReputer"

\* Lines 156-162 and 177-178, entered with the local variables self and the
\* history h of the iteration so far: the submission window is recomputed from
\* the kept nonce when it is stale, and the iteration goes on to the commit
\* (inside the window) or to the reputer window-start wait (outside). Each
\* path dereferences latestOpenReputerNonce (lines 157, 163, 178): a nil
\* pointer panics, and with no recover the process ends.
ReputerSubmission(i, self, h) ==
  IF self.latestOpenReputerNonce = NilNonce
  THEN /\ panicked' = TRUE
       /\ reputer' = [reputer EXCEPT ![i] = [self EXCEPT !.pc = "panic"]]
       /\ Log(R(i), h)
  ELSE /\ panicked' = panicked
       /\ \E window \in ReputerSubmissionWindows(self) :
            /\ reputer' = [reputer EXCEPT ![i] =
                 [self EXCEPT
                    !.window = window,
                    !.mustRecalcReputerWindow = FALSE,
                    !.pc = ReputerNextStep(
                              BlockIsWithinReputerWindow(window, self.currentBlock))]]
            /\ Log(R(i),
                 IF self.mustRecalcReputerWindow
                 THEN [Called(h, "repwindow", "repwindow") EXCEPT
                         !.windowNonce =
                            [BlockHeight |-> self.latestOpenReputerNonce.BlockHeight,
                             needed |-> self.mustGetOpenNonce,
                             fresh |-> h.nonceFresh]]
                 ELSE h)

\* Lines 132-145 (and 156-179 when no nonce is fetched): the height is
\* fetched and the open-nonce window recomputed when it is stale; the
\* iteration goes on to the nonce fetch when a nonce is needed and the
\* height is inside the window, and to the submission part otherwise.
ReputerIterate(i) ==
  /\ ~panicked /\ reputer[i].pc = "height"
  /\ \E window \in ReputerOpenNonceWindows(reputer[i], chainHeight) :
       LET self == [reputer[i] EXCEPT !.currentBlock = chainHeight,
                                      !.window = window,
                                      !.mustRecalcOpenNonceWindow = FALSE]
           h == [hist[R(i)] EXCEPT
                   !.did = @ \cup {"height"}
                             \cup (IF reputer[i].mustRecalcOpenNonceWindow
                                   THEN {"window"} ELSE {}),
                   !.iter = IF reputer[i].mustRecalcOpenNonceWindow
                            THEN {"window"} ELSE {},
                   !.openWindow = IF reputer[i].mustRecalcOpenNonceWindow
                                  THEN window ELSE @]
       IN IF ReputerFetchesNonce(self.mustGetOpenNonce, window, chainHeight)
          THEN /\ reputer' = [reputer EXCEPT ![i] = [self EXCEPT !.pc = "nonce"]]
               /\ Log(R(i), h)
               /\ panicked' = panicked
          ELSE ReputerSubmission(i, self, h)
  /\ UNCHANGED <<cfgVars, spawnVars, wg, worker, chainHeight>>

\* Lines 146-154 (and 156-179 when the nonce is usable): the nonce is fetched
\* and kept; an absent nonce or an error leaves mustGetOpenNonce set and
\* continues with the next iteration, a usable one clears the flag.
ReputerFetchNonce(i) ==
  /\ ~panicked /\ reputer[i].pc = "nonce"
  /\ \E res \in NonceResults :
       LET kept == [reputer[i] EXCEPT
                      !.latestOpenReputerNonce = Nonce(res.BlockHeight)]
           h == [Called(hist[R(i)], "nonce", "nonce") EXCEPT
                   !.fetched = res,
                   !.nonceFresh = ~NonceUnusable(res.BlockHeight, res.err),
                   !.retry = (res.BlockHeight = 0 \/ res.err),
                   !.nonceCommitted = FALSE]
       IN IF NonceUnusable(res.BlockHeight, res.err)
          THEN /\ reputer' = [reputer EXCEPT ![i] =
                    [kept EXCEPT !.mustGetOpenNonce = TRUE, !.pc = "height"]]
               /\ Log(R(i), h)
               /\ panicked' = panicked
          ELSE ReputerSubmission(i, [kept EXCEPT !.mustGetOpenNonce = FALSE], h)
  /\ UNCHANGED <<cfgVars, spawnVars, wg, worker, chainHeight>>

\* Mutant: every commit result sets the flag.
ReputerStaleAfterCommit_Always(success, flag) == TRUE

\* Lines 167-170: what a commit result does to a staleness flag.
ReputerStaleAfterCommit(success, flag) ==
  IF success THEN TRUE ELSE flag

\* Lines 167-175: the wait a commit result leads to.
ReputerWaitAfterCommit(success) ==
  IF success THEN "waitStart" ELSE "backoff"

\* Lines 163-175: BuildCommitReputerPayload with the kept nonce's height;
\* success sets the three flags and leads to the worker-anchored window-start
\* wait, failure to the short wait.
ReputerCommit(i) ==
  /\ ~panicked /\ reputer[i].pc = "commit"
  /\ \E success \in BOOLEAN :
       /\ reputer' = [reputer EXCEPT ![i] =
            [@ EXCEPT
               !.mustRecalcOpenNonceWindow = ReputerStaleAfterCommit(success, @),
               !.mustGetOpenNonce = ReputerStaleAfterCommit(success, @),
               !.mustRecalcReputerWindow = ReputerStaleAfterCommit(success, @),
               !.pc = ReputerWaitAfterCommit(success)]]
       /\ Log(R(i), [Called(hist[R(i)], "commit", "commit") EXCEPT
                        !.iter = @ \cup (IF success THEN {"success"} ELSE {}),
                        !.nonceFresh = IF success THEN FALSE ELSE @,
                        !.retry = IF success THEN FALSE ELSE @,
                        !.usedTwice = @ \/ (success /\ hist[R(i)].nonceCommitted),
                        !.nonceCommitted = @ \/ success])
  /\ UNCHANGED <<cfgVars, spawnVars, wg, worker, chainHeight, panicked>>

\* Line 171: window.WaitForNextAnticipatedWindowToStart returns.
ReputerWaitForNextWindow(i) ==
  /\ ~panicked /\ reputer[i].pc = "waitStart"
  /\ reputer' = [reputer EXCEPT ![i].pc = "height"]
  /\ Log(R(i), Called(hist[R(i)], "wait", "waitStart"))
  /\ UNCHANGED <<cfgVars, spawnVars, wg, worker, chainHeight, panicked>>

\* Line 174: suite.WaitWithinAnticipatedWindow returns.
ReputerWaitWithinWindow(i) ==
  /\ ~panicked /\ reputer[i].pc = "backoff"
  /\ reputer' = [reputer EXCEPT ![i].pc = "height"]
  /\ Log(R(i), Called(hist[R(i)], "wait", "backoff"))
  /\ UNCHANGED <<cfgVars, spawnVars, wg, worker, chainHeight, panicked>>

\* Line 178: window.WaitForNextReputerAnticipatedWindowToStart returns.
ReputerWaitForReputerWindow(i) ==
  /\ ~panicked /\ reputer[i].pc = "waitReputer"
  /\ reputer' = [reputer EXCEPT ![i].pc = "height"]
  /\ Log(R(i), Called(hist[R(i)], "wait", "waitReputer"))
  /\ UNCHANGED <<cfgVars, spawnVars, wg, worker, chainHeight, panicked>>

\* ------------------------------------------------- one worker, one topic
InitWorker == InitWith(<<1>>, <<>>, TRUE)

NextWorker ==
  \/ Tick
  \/ SpawnStartWorker
  \/ SpawnWorkersDone
  \/ SpawnReputersDone
  \/ SpawnReturn
  \/ \E i \in Workers : WorkerGetTopic(i)
  \/ \E i \in Workers : WorkerRegister(i)
  \/ \E i \in Workers : WorkerHeightError(i)
  \/ \E i \in Workers : WorkerIterate(i)
  \/ \E i \in Workers : WorkerFetchNonce(i)
  \/ \E i \in Workers : WorkerCommit(i)
  \/ \E i \in Workers : WorkerWaitForNextWindow(i)
  \/ \E i \in Workers : WorkerWaitWithinWindow(i)

SpecWorker == InitWorker /\ [][NextWorker]_vars

\* ------------------------------------------------ one reputer, one topic
InitReputer == InitWith(<<>>, <<1>>, TRUE)

NextReputer ==
  \/ Tick
  \/ SpawnWorkersDone
  \/ SpawnStartReputer
  \/ SpawnReputersDone
  \/ SpawnReturn
  \/ \E i \in Reputers : ReputerGetTopic(i)
  \/ \E i \in Reputers : ReputerRegister(i)
  \/ \E i \in Reputers : ReputerHeightError(i)
  \/ \E i \in Reputers : ReputerIterate(i)
  \/ \E i \in Reputers : ReputerFetchNonce(i)
  \/ \E i \in Reputers : ReputerCommit(i)
  \/ \E i \in Reputers : ReputerWaitForNextWindow(i)
  \/ \E i \in Reputers : ReputerWaitWithinWindow(i)
  \/ \E i \in Reputers : ReputerWaitForReputerWindow(i)

SpecReputer == InitReputer /\ [][NextReputer]_vars

\* ------------------------------------------ one loop of either role
InitLoop == InitWorker \/ InitReputer

NextLoop ==
  \/ Tick
  \/ SpawnStartWorker
  \/ SpawnWorkersDone
  \/ SpawnStartReputer
  \/ SpawnReputersDone
  \/ SpawnReturn
  \/ \E i \in Workers : WorkerGetTopic(i)
  \/ \E i \in Workers : WorkerRegister(i)
  \/ \E i \in Workers : WorkerHeightError(i)
  \/ \E i \in Workers : WorkerIterate(i)
  \/ \E i \in Workers : WorkerFetchNonce(i)
  \/ \E i \in Workers : WorkerCommit(i)
  \/ \E i \in Workers : WorkerWaitForNextWindow(i)
  \/ \E i \in Workers : WorkerWaitWithinWindow(i)
  \/ \E i \in Reputers : ReputerGetTopic(i)
  \/ \E i \in Reputers : ReputerRegister(i)
  \/ \E i \in Reputers : ReputerHeightError(i)
  \/ \E i \in Reputers : ReputerIterate(i)
  \/ \E i \in Reputers : ReputerFetchNonce(i)
  \/ \E i \in Reputers : ReputerCommit(i)
  \/ \E i \in Reputers : ReputerWaitForNextWindow(i)
  \/ \E i \in Reputers : ReputerWaitWithinWindow(i)
  \/ \E i \in Reputers : ReputerWaitForReputerWindow(i)

SpecLoop == InitLoop /\ [][NextLoop]_vars

\* ------------------------------------------- the dispatcher and its loops
Range(f) == { f[x] : x \in DOMAIN f }

\* Configurations of both roles that start at most MaxLoops loops.
Init ==
  \E wc \in Configs, rc \in Configs :
    /\ Cardinality(Range(wc)) + Cardinality(Range(rc)) <= MaxLoops
    /\ InitWith(wc, rc, FALSE)

Next ==
  \/ Tick
  \/ SpawnSkipWorker
  \/ SpawnStartWorker
  \/ SpawnWorkersDone
  \/ SpawnSkipReputer
  \/ SpawnStartReputer
  \/ SpawnReputersDone
  \/ SpawnReturn
  \/ \E i \in Workers : WorkerGetTopic(i)
  \/ \E i \in Workers : WorkerRegister(i)
  \/ \E i \in Workers : WorkerHeightError(i)
  \/ \E i \in Workers : WorkerIterate(i)
  \/ \E i \in Workers : WorkerFetchNonce(i)
  \/ \E i \in Workers : WorkerCommit(i)
  \/ \E i \in Workers : WorkerWaitForNextWindow(i)
  \/ \E i \in Workers : WorkerWaitWithinWindow(i)
  \/ \E i \in Reputers : ReputerGetTopic(i)
  \/ \E i \in Reputers : ReputerRegister(i)
  \/ \E i \in Reputers : ReputerHeightError(i)
  \/ \E i \in Reputers : ReputerIterate(i)
  \/ \E i \in Reputers : ReputerFetchNonce(i)
  \/ \E i \in Reputers : ReputerCommit(i)
  \/ \E i \in Reputers : ReputerWaitForNextWindow(i)
  \/ \E i \in Reputers : ReputerWaitWithinWindow(i)
  \/ \E i \in Reputers : ReputerWaitForReputerWindow(i)

Spec == Init /\ [][Next]_vars

\* ================================================================ claims
\* A step of the goroutine of worker entry i, of reputer entry i.
WorkerStep(i) ==
  \/ WorkerGetTopic(i)
  \/ WorkerRegister(i)
  \/ WorkerHeightError(i)
  \/ WorkerIterate(i)
  \/ WorkerFetchNonce(i)
  \/ WorkerCommit(i)
  \/ WorkerWaitForNextWindow(i)
  \/ WorkerWaitWithinWindow(i)

ReputerStep(i) ==
  \/ ReputerGetTopic(i)
  \/ ReputerRegister(i)
  \/ ReputerHeightError(i)
  \/ ReputerIterate(i)
  \/ ReputerFetchNonce(i)
  \/ ReputerCommit(i)
  \/ ReputerWaitForNextWindow(i)
  \/ ReputerWaitWithinWindow(i)
  \/ ReputerWaitForReputerWindow(i)

WorkersOnTopic(t) == {i \in Workers : worker[i].pc # "idle" /\ workerCfg[i] = t}
ReputersOnTopic(t) == {i \in Reputers : reputer[i].pc # "idle" /\ reputerCfg[i] = t}

Waits == {"backoff", "waitStart", "waitReputer"}

\* The loop has fetched the height at least once and has not returned: its
\* local variables are those of the current (at pc "height": the last) iteration.
WorkerIterating(i) ==
  /\ worker[i].pc \in {"height", "nonce", "commit", "backoff", "waitStart"}
  /\ "height" \in hist[W(i)].did

Usable(res) == res.BlockHeight > 0 /\ ~res.err

\* C1: for each role and TopicId, Spawn never starts two loops, and once the
\* role's entries have been walked exactly one loop has been started when an
\* entry carries the TopicId and none otherwise.
OneLoopPerRoleAndTopic ==
  \A t \in TopicIds :
    /\ Cardinality(WorkersOnTopic(t)) <= 1
    /\ Cardinality(ReputersOnTopic(t)) <= 1
    /\ spawnPc # "workers" =>
         (WorkersOnTopic(t) # {} <=> t \in Range(workerCfg))
    /\ spawnPc \in {"wait", "returned"} =>
         (ReputersOnTopic(t) # {} <=> t \in Range(reputerCfg))

\* C1 witness: two worker entries repeat a TopicId, Spawn has walked both
\* lists, and only the first entry has a loop.
DuplicateEntryHasOneLoop ==
  /\ spawnPc = "wait"
  /\ \E i, j \in Workers :
       /\ i < j /\ workerCfg[i] = workerCfg[j]
       /\ worker[i].pc # "idle" /\ worker[j].pc = "idle"

\* C2: every commit attempt, of a worker or of a reputer, is made with a nonce
\* whose BlockHeight is not 0 and that the last nonce fetch returned without
\* an error.
CommitNonceIsValid ==
  /\ \A i \in Workers :
       worker[i].pc = "commit" =>
         /\ worker[i].latestOpenWorkerNonce.BlockHeight > 0
         /\ hist[W(i)].fetched =
              [BlockHeight |-> worker[i].latestOpenWorkerNonce.BlockHeight,
               err |-> FALSE]
  /\ \A i \in Reputers :
       reputer[i].pc = "commit" =>
         /\ reputer[i].latestOpenReputerNonce.BlockHeight > 0
         /\ hist[R(i)].fetched =
              [BlockHeight |-> reputer[i].latestOpenReputerNonce.BlockHeight,
               err |-> FALSE]

RegistrationFailureStopsLoop ==
  /\ \A i \in Workers :
       hist[W(i)].registered = "false" =>
         worker[i].pc = "done" /\ hist[W(i)].did \subseteq {"topic", "register"}
  /\ \A i \in Reputers :
       hist[R(i)].registered = "false" =>
         reputer[i].pc = "done" /\ hist[R(i)].did \subseteq {"topic", "register"}

\* C4 witness: a registration call has returned false.
RegistrationFailed_Reached ==
  \/ \E i \in Workers : hist[W(i)].registered = "false"
  \/ \E i \in Reputers : hist[R(i)].registered = "false"

AllLoopsReturned ==
  /\ \A i \in Workers : worker[i].pc \in {"idle", "done"}
  /\ \A i \in Reputers : reputer[i].pc \in {"idle", "done"}

\* C5: Spawn has returned only if every loop it started has returned, and when
\* it waits with every started loop returned (or none started) it can return.
SpawnJoinsAllLoops ==
  /\ spawnPc = "returned" => AllLoopsReturned
  /\ (spawnPc = "wait" /\ AllLoopsReturned) => ENABLED SpawnReturn

\* C5 witness: Spawn has returned after a worker loop and a reputer loop did.
SpawnReturnedAfterLoops ==
  /\ spawnPc = "returned"
  /\ \E i \in Workers : worker[i].pc = "done"
  /\ \E i \in Reputers : reputer[i].pc = "done"

\* C6: whatever has happened in the other loops, a started loop that has not
\* returned can take a step.
SiblingLoopsKeepRunning ==
  /\ \A i \in Workers :
       worker[i].pc \notin {"idle", "done"} => ENABLED WorkerStep(i)
  /\ \A i \in Reputers :
       reputer[i].pc \notin {"idle", "done", "panic"} => ENABLED ReputerStep(i)

\* C7: a loop is about to fetch the height again only after a wait in the
\* iteration before, and after the short wait when that iteration fetched a
\* nonce and did not commit successfully.
NoIterationWithoutWait ==
  /\ \A i \in Workers :
       (worker[i].pc = "height" /\ "height" \in hist[W(i)].did) =>
         /\ hist[W(i)].iter \cap Waits # {}
         /\ ("nonce" \in hist[W(i)].iter /\ "success" \notin hist[W(i)].iter)
              => "backoff" \in hist[W(i)].iter
  /\ \A i \in Reputers :
       (reputer[i].pc = "height" /\ "height" \in hist[R(i)].did) =>
         /\ hist[R(i)].iter \cap Waits # {}
         /\ ("nonce" \in hist[R(i)].iter /\ "success" \notin hist[R(i)].iter)
              => "backoff" \in hist[R(i)].iter

\* C8: a worker registers at most once; in every iteration whose height is
\* inside the window it fetches the nonce, and whenever the fetch returns a
\* usable nonce it attempts the commit, however many commits failed before.
WorkerRetriesWithoutLimit ==
  \A i \in Workers :
    /\ hist[W(i)].nReg <= 1
    /\ WorkerIterating(i) =>
         /\ BlockIsWithinWindow(worker[i].window, worker[i].currentBlock) =>
              (worker[i].pc = "nonce" \/ "nonce" \in hist[W(i)].iter)
         /\ Usable(hist[W(i)].fetched) =>
              (worker[i].pc = "commit" \/ "commit" \in hist[W(i)].iter)

\* C8 witness: a commit is attempted after MaxFails consecutive failed ones.
CommitAfterRepeatedFailures ==
  \E i \in Workers : worker[i].pc = "commit" /\ hist[W(i)].fails = MaxFails

\* The worker's iteration fetched a nonce and has not committed successfully.
FailedInWindow(i) ==
  "nonce" \in hist[W(i)].iter /\ "success" \notin hist[W(i)].iter

\* C9: in and after a worker iteration that is inside the window and does not
\* commit successfully, the staleness flag stays clear, the window-start wait
\* is not made, the short wait is, and no step (the next iteration's height
\* step included) changes the window or the flag.
FailedIterationKeepsWindow ==
  /\ [](\A i \in Workers :
          FailedInWindow(i) =>
            /\ ~worker[i].mustRecalcWindow
            /\ "waitStart" \notin hist[W(i)].iter
            /\ worker[i].pc # "waitStart"
            /\ worker[i].pc = "height" => "backoff" \in hist[W(i)].iter)
  /\ [][\A i \in Workers :
          (FailedInWindow(i) /\ "success" \notin hist'[W(i)].iter) =>
            /\ worker'[i].window = worker[i].window
            /\ worker'[i].mustRecalcWindow = worker[i].mustRecalcWindow]_vars

\* C9 witness: an iteration whose commit failed has ended with the short wait.
FailedCommitIterationEnded ==
  \E i \in Workers :
    /\ worker[i].pc = "height"
    /\ {"nonce", "commit", "backoff"} \subseteq hist[W(i)].iter
    /\ "success" \notin hist[W(i)].iter

\* C10: a worker fetches a nonce or attempts a commit only in an iteration
\* whose height is inside the window, and an iteration whose height is outside
\* makes only the window-start wait; a reputer attempts a commit only in an
\* iteration whose height is inside its submission window.
OnlyInsideWindow ==
  /\ \A i \in Workers :
       (/\ WorkerIterating(i)
        /\ ~BlockIsWithinWindow(worker[i].window, worker[i].currentBlock)) =>
         /\ worker[i].pc \in {"waitStart", "height"}
         /\ hist[W(i)].iter \subseteq {"window", "waitStart"}
         /\ worker[i].pc = "height" => "waitStart" \in hist[W(i)].iter
  /\ \A i \in Reputers :
       (reputer[i].pc = "commit" \/ "commit" \in hist[R(i)].iter) =>
         BlockIsWithinReputerWindow(reputer[i].window, reputer[i].currentBlock)

\* C10 witness: a worker iteration whose height is outside the window is at
\* the window-start wait.
OutsideWindowWaits ==
  \E i \in Workers :
    /\ worker[i].pc = "waitStart"
    /\ ~worker[i].mustRecalcWindow
    /\ ~BlockIsWithinWindow(worker[i].window, worker[i].currentBlock)

\* C11: a loop whose height fetch returned an error has returned, has made
\* no call in that iteration (no window computation, nonce fetch, commit
\* attempt or wait), and makes no further step: its history and its local
\* variables never change again.
HeightErrorEndsLoop ==
  /\ [](/\ \A i \in Workers :
            hist[W(i)].heightErr =>
              worker[i].pc = "done" /\ hist[W(i)].iter = {}
        /\ \A i \in Reputers :
            hist[R(i)].heightErr =>
              reputer[i].pc = "done" /\ hist[R(i)].iter = {})
  /\ [][/\ \A i \in Workers :
            hist[W(i)].heightErr =>
              worker'[i] = worker[i] /\ hist'[W(i)] = hist[W(i)]
        /\ \A i \in Reputers :
            hist[R(i)].heightErr =>
              reputer'[i] = reputer[i] /\ hist'[R(i)] = hist[R(i)]]_vars

\* C11 witness: a height fetch failed in an iteration after a wait, in a
\* worker loop or after a commit attempt in a reputer loop.
HeightErrorAfterWait ==
  \/ \E i \in Workers : hist[W(i)].heightErr /\ "wait" \in hist[W(i)].did
  \/ \E i \in Reputers : hist[R(i)].heightErr /\ "commit" \in hist[R(i)].did

\* The entries of a role that Spawn has walked so far.
WalkedWorkers ==
  IF spawnPc = "workers" THEN 1..(spawnIdx - 1) ELSE Workers

WalkedReputers ==
  IF spawnPc = "workers" THEN {}
  ELSE IF spawnPc = "reputers" THEN 1..(spawnIdx - 1) ELSE Reputers

\* Entry i is the first of cfg with its TopicId.
FirstWithTopic(cfg, i) == \A j \in 1..(i - 1) : cfg[j] # cfg[i]

\* C12: the goroutine of an entry is started exactly when Spawn has walked
\* the entry and it is the first of its role's list with its TopicId; an
\* entry that repeats an earlier TopicId is never started.
FirstEntryRunsTheLoop ==
  /\ \A i \in Workers :
       worker[i].pc # "idle" <=>
         (i \in WalkedWorkers /\ FirstWithTopic(workerCfg, i))
  /\ \A i \in Reputers :
       reputer[i].pc # "idle" <=>
         (i \in WalkedReputers /\ FirstWithTopic(reputerCfg, i))

\* C12 witness: Spawn has walked two reputer entries with one TopicId; the
\* loop of the first is at a commit and the second was never started.
LaterEntrySkipped ==
  /\ spawnPc \in {"wait", "returned"}
  /\ \E i, j \in Reputers :
       /\ i < j /\ reputerCfg[i] = reputerCfg[j]
       /\ reputer[i].pc = "commit" /\ reputer[j].pc = "idle"

\* C13: whenever a reputer has computed its submission window, it did so
\* with mustGetOpenNonce clear and from a nonce with a non-zero BlockHeight
\* that a fetch had returned without an error; and it never reaches the
\* computation with no nonce fetched at all (the nil dereference).
SubmissionWindowFromValidNonce ==
  \A i \in Reputers :
    /\ reputer[i].pc # "panic"
    /\ "repwindow" \in hist[R(i)].did =>
         /\ ~hist[R(i)].windowNonce.needed
         /\ hist[R(i)].windowNonce.BlockHeight > 0

\* C14: a reputer's mustGetOpenNonce is clear only after a fetch that
\* returned a non-zero BlockHeight without an error; after a fetch that
\* returned an absent nonce or an error the flag is set and the iteration has
\* ended with no submission-window computation and no commit attempt; and
\* while such a fetch is the last one of the cycle, every iteration whose
\* height is inside the open-nonce window fetches the nonce.
OpenNonceFetchRetried ==
  \A i \in Reputers :
    /\ (reputer[i].pc \notin {"idle", "getTopic", "register"}
         /\ ~reputer[i].mustGetOpenNonce) => Usable(hist[R(i)].fetched)
    /\ hist[R(i)].retry => reputer[i].mustGetOpenNonce
    /\ (/\ reputer[i].pc = "height"
        /\ "nonce" \in hist[R(i)].iter
        /\ ~Usable(hist[R(i)].fetched)) =>
          hist[R(i)].iter \subseteq {"window", "nonce"}
    /\ (/\ hist[R(i)].retry
        /\ reputer[i].pc \in {"commit", "backoff", "waitStart", "waitReputer"}
        /\ BlockIsWithinWindow(hist[R(i)].openWindow,
                               reputer[i].currentBlock)) =>
          "nonce" \in hist[R(i)].iter

\* C15: after a successful commit a worker has marked the window stale and is
\* at the window-start wait, with no short wait made; after that wait it is
\* about to fetch the height with the window still stale (or has returned
\* on a failed height fetch); and the iteration
\* that follows computes the window from the height it has just fetched and
\* goes by the membership test of that window, before any nonce fetch or
\* commit attempt.
SuccessThenWaitThenRecompute ==
  /\ [](\A i \in Workers :
          /\ hist[W(i)].sinceSucc = "succ" =>
               /\ worker[i].pc = "waitStart"
               /\ worker[i].mustRecalcWindow
               /\ "backoff" \notin hist[W(i)].iter
          /\ hist[W(i)].sinceSucc = "waited" =>
               /\ worker[i].pc \in {"height", "done"}
               /\ worker[i].mustRecalcWindow
               /\ worker[i].pc = "height" =>
                    /\ "waitStart" \in hist[W(i)].iter
                    /\ "backoff" \notin hist[W(i)].iter
          /\ hist[W(i)].sinceSucc # "again")
  /\ [][\A i \in Workers :
          (/\ hist[W(i)].sinceSucc = "waited"
           /\ worker'[i].pc \notin {"height", "done"}) =>
            /\ hist'[W(i)].sinceSucc = "recomputed"
            /\ hist'[W(i)].iter = {"window"}
            /\ worker'[i].currentBlock = chainHeight
            /\ worker'[i].window \in
                 CalcWorkerSoonestAnticipatedWindow(EpochLength, chainHeight)
            /\ ~worker'[i].mustRecalcWindow
            /\ worker'[i].pc =
                 (IF BlockIsWithinWindow(worker'[i].window, chainHeight)
                  THEN "nonce" ELSE "waitStart")]_vars

\* C15 witness: in the iteration after a successful commit and the
\* window-start wait, a worker has recomputed the window at a higher block
\* and is at the nonce fetch.
RecomputedAfterSuccess ==
  \E i \in Workers :
    /\ worker[i].pc = "nonce"
    /\ hist[W(i)].sinceSucc = "recomputed"
    /\ hist[W(i)].iter = {"window"}
    /\ worker[i].window.open > 1

\* The three flags of a reputer loop.
ReputerFlags(self) ==
  <<self.mustRecalcOpenNonceWindow, self.mustGetOpenNonce,
    self.mustRecalcReputerWindow>>

\* C16: a step from a reputer's commit attempt that succeeded leaves the
\* three flags set and the loop at the worker-anchored window-start wait; one
\* that failed leaves the three flags and the window as they were and the
\* loop at the short wait.
ReputerCommitEffect ==
  [][\A i \in Reputers :
       (reputer[i].pc = "commit" /\ reputer'[i].pc # "commit") =>
         IF "success" \in hist'[R(i)].iter
         THEN /\ ReputerFlags(reputer'[i]) = <<TRUE, TRUE, TRUE>>
              /\ reputer'[i].pc = "waitStart"
         ELSE /\ ReputerFlags(reputer'[i]) = ReputerFlags(reputer[i])
              /\ reputer'[i].window = reputer[i].window
              /\ reputer'[i].pc = "backoff"]_vars

\* C16 witness: a reputer's commit has succeeded in a later iteration of a
\* cycle (one that neither recomputed the open-nonce window nor fetched the
\* nonce): the flags are set and the loop is at the window-start wait.
ReputerCommittedAfterFailure ==
  \E i \in Reputers :
    /\ reputer[i].pc = "waitStart"
    /\ "success" \in hist[R(i)].iter
    /\ ReputerFlags(reputer[i]) = <<TRUE, TRUE, TRUE>>
    /\ "window" \notin hist[R(i)].iter
    /\ "nonce" \notin hist[R(i)].iter

\* The loops of a role whose commit attempt for topic t is in flight.
WorkerCommitsInFlight(t) ==
  {i \in Workers : workerCfg[i] = t /\ worker[i].pc = "commit"}

ReputerCommitsInFlight(t) ==
  {i \in Reputers : reputerCfg[i] = t /\ reputer[i].pc = "commit"}

\* C17: in every state of every run of every configuration, at most one
\* worker commit attempt and at most one reputer commit attempt is in flight
\* for each TopicId.
OneCommitInFlightPerRoleAndTopic ==
  \A t \in TopicIds :
    /\ Cardinality(WorkerCommitsInFlight(t)) <= 1
    /\ Cardinality(ReputerCommitsInFlight(t)) <= 1

\* C17 witness: two commit attempts are in flight at the same time, of a
\* worker and of a reputer on one TopicId, while a second worker entry with
\* that TopicId has no loop.
CommitsOfBothRolesInFlight ==
  \E t \in TopicIds :
    /\ WorkerCommitsInFlight(t) # {}
    /\ ReputerCommitsInFlight(t) # {}
    /\ \E j \in Workers : workerCfg[j] = t /\ worker[j].pc = "idle"

\* The worker has fetched a height above the upper bound of its window and
\* the window is not marked stale.
PastWindow(i) ==
  /\ WorkerIterating(i)
  /\ ~worker[i].mustRecalcWindow
  /\ worker[i].currentBlock > worker[i].window.close

\* C18: a worker's window changes only in an iteration that recomputes it,
\* and an iteration recomputes it exactly when it is the first one or the
\* one before committed successfully; and, the chain height never
\* decreasing, a worker that has fetched a height above its window's upper
\* bound with the window not marked stale stays so for ever: it only makes
\* the window-start wait and fetches the height (or returns), and never
\* fetches a nonce or attempts a commit again.
WorkerPastWindowNeverCommits ==
  /\ [][\A i \in Workers :
          /\ worker'[i].window # worker[i].window =>
               "window" \in hist'[W(i)].iter
          /\ (worker[i].pc = "height" /\ worker'[i].pc \notin {"height", "done"}) =>
               ("window" \in hist'[W(i)].iter <=>
                  ("height" \notin hist[W(i)].did
                   \/ "success" \in hist[W(i)].iter))]_vars
  /\ [](\A i \in Workers :
          PastWindow(i) => worker[i].pc \in {"waitStart", "height"})
  /\ [][\A i \in Workers :
          PastWindow(i) =>
            \/ worker'[i].pc = "done"
            \/ /\ worker'[i].pc \in {"waitStart", "height"}
               /\ worker'[i].window = worker[i].window
               /\ ~worker'[i].mustRecalcWindow
               /\ worker'[i].currentBlock > worker'[i].window.close
               /\ hist'[W(i)].iter \subseteq {"waitStart"}]_vars

\* C18 witness: a worker that fetched a nonce inside its window and never
\* committed successfully has fetched a height above the window, has made
\* the window-start wait and has fetched a still higher height.
WorkerStuckPastWindow ==
  \E i \in Workers :
    /\ PastWindow(i)
    /\ worker[i].pc = "waitStart"
    /\ "nonce" \in hist[W(i)].did
    /\ "wait" \in hist[W(i)].did
    /\ hist[W(i)].nSucc = 0
    /\ worker[i].currentBlock > worker[i].window.close + 1

\* C19: a reputer attempts a commit only with a nonce that a fetch returned
\* without error and with a non-zero BlockHeight since the last successful
\* commit (or the loop's start); it has computed its submission window only
\* from such a nonce; and no two of its successful commits used the same
\* fetched nonce.
ReputerNonceOfCurrentCycle ==
  \A i \in Reputers :
    /\ reputer[i].pc = "commit" => hist[R(i)].nonceFresh
    /\ "repwindow" \in hist[R(i)].did => hist[R(i)].windowNonce.fresh
    /\ ~hist[R(i)].usedTwice

\* C20: a loop whose topic fetch returned an error has returned and has made
\* no other call (no registration, height fetch, window computation, nonce
\* fetch, commit attempt or wait); a loop calls the registration at most
\* once, and only after its topic fetch returned without an error.
TopicErrorEndsLoop ==
  /\ \A i \in Workers :
       /\ hist[W(i)].topic = "err" =>
            /\ worker[i].pc = "done"
            /\ hist[W(i)].did = {"topic"} /\ hist[W(i)].iter = {}
            /\ hist[W(i)].nReg = 0
       /\ hist[W(i)].nReg <= 1
       /\ (worker[i].pc = "register" \/ "register" \in hist[W(i)].did) =>
            hist[W(i)].topic = "ok"
  /\ \A i \in Reputers :
       /\ hist[R(i)].topic = "err" =>
            /\ reputer[i].pc = "done"
            /\ hist[R(i)].did = {"topic"} /\ hist[R(i)].iter = {}
            /\ hist[R(i)].nReg = 0
       /\ hist[R(i)].nReg <= 1
       /\ (reputer[i].pc = "register" \/ "register" \in hist[R(i)].did) =>
            hist[R(i)].topic = "ok"

\* C20 witness: the topic fetch of a loop has returned an error and Spawn,
\* which waited for the loop, has returned.
TopicErrorReached ==
  /\ spawnPc = "returned"
  /\ \/ \E i \in Workers : hist[W(i)].topic = "err"
     \/ \E i \in Reputers : hist[R(i)].topic = "err"

====
